---- MODULE Spec2Model ----
(***************************************************************************)
(* Model of crates/uv-requirements/src/resolver.rs:                        *)
(* NamedRequirementsResolver::resolve (the ordered, buffered stream over   *)
(* the requirements) and NamedRequirementsResolver::resolve_requirement    *)
(* (the fallback chain that infers the name of one unnamed requirement).   *)
(***************************************************************************)
EXTENDS Integers, Sequences, FiniteSets, TLC

(***************************************************************************)
(* Bounds of the model.                                                    *)
(*   MaxLen       longest requirements list of the batch specification     *)
(*   BufferedMax  the argument of `.buffered(..)`; the source passes 50,   *)
(*                the model scales it down so that lists longer than the   *)
(*                ceiling are explored                                     *)
(***************************************************************************)
MaxLen == 4
BufferedMax == 2

(***************************************************************************)
(* Values                                                                  *)
(***************************************************************************)
NoName == "<none>"

\* Option<T> / Result<T, E> as records of one shape.
None == [some |-> FALSE, val |-> NoName]
Some(v) == [some |-> TRUE, val |-> v]

\* The strings of the model that satisfy the package-name grammar; "-bad-"
\* stands for the strings that do not.
ValidNames == {"pkg", "foo", "bar", "baz", "qux", "built"}

\* PackageName::from_str succeeds exactly on the strings of the grammar.
PackageName_from_str(s) == IF s \in ValidNames THEN Some(s) ELSE None

(***************************************************************************)
(* Locators.  A url is [scheme, path]; path is the last path segment.      *)
(***************************************************************************)
Paths == {"pkg-1.0-py3-none-any.whl", "pkg-1.0.whl", "pkg-1.0.WHL",
          "%FF.whl", "pkg-1.0.tar.gz", "project", "%FF"}

Schemes == {"file", "http", "https", "git+ssh", "git+https", "ftp", "hg+https"}

\* Path::new(url.path()).extension()
extension(path) ==
    CASE path = "pkg-1.0-py3-none-any.whl" -> Some("whl")
      [] path = "pkg-1.0.whl" -> Some("whl")
      [] path = "pkg-1.0.WHL" -> Some("WHL")
      [] path = "%FF.whl" -> Some("whl")
      [] path = "pkg-1.0.tar.gz" -> Some("gz")
      [] OTHER -> None

to_ascii_lowercase(s) ==
    CASE s = "WHL" -> "whl"
      [] s = "Metadata" -> "metadata"
      [] OTHER -> s

\* ext.eq_ignore_ascii_case(other)
eq_ignore_ascii_case(ext, other) == to_ascii_lowercase(ext) = to_ascii_lowercase(other)

\* requirement.url.filename(): the decoded last segment, or an error when
\* the segment cannot be decoded.
filename(url) == IF url.path \in {"%FF.whl", "%FF"} THEN None ELSE Some(url.path)

\* WheelFilename::from_str: name-version-python-abi-platform.whl
WheelFilename_from_str(f) ==
    IF f = "pkg-1.0-py3-none-any.whl" THEN Some("pkg") ELSE None

\* SourceDistFilename::parsed_normalized_filename: name-version.<sdist ext>
SourceDistFilename_parsed_normalized_filename(f) ==
    IF f = "pkg-1.0.tar.gz" THEN Some("pkg") ELSE None

\* Scheme::parse
Scheme_parse(s) ==
    CASE s = "file" -> Some("File")
      [] s = "http" -> Some("Http")
      [] s = "https" -> Some("Https")
      [] s = "git+ssh" -> Some("GitSsh")
      [] s = "git+https" -> Some("GitHttps")
      [] s = "hg+https" -> Some("HgHttps")
      [] OTHER -> None

(***************************************************************************)
(* Requirements                                                            *)
(***************************************************************************)
NoUrl == [scheme |-> "", path |-> ""]

\* VersionOrUrl::Url(url) and the absent version_or_url of a Requirement.
VersionOrUrl_Url(url) == [kind |-> "Url", url |-> url]
NoVersionOrUrl == [kind |-> "None", url |-> NoUrl]

\* pep508_rs::Requirement { name, extras, version_or_url, marker }
Requirement(name, extras, version_or_url, marker) ==
    [name |-> name, extras |-> extras, version_or_url |-> version_or_url,
     marker |-> marker]

NoRequirement == Requirement(NoName, {}, NoVersionOrUrl, "")

\* RequirementsTxtRequirement::Pep508(Requirement)
Pep508(req) == [tag |-> "Pep508", name |-> req.name, extras |-> req.extras,
                url |-> req.version_or_url.url, has_url |-> req.version_or_url.kind = "Url",
                marker |-> req.marker]

\* RequirementsTxtRequirement::Unnamed(UnnamedRequirement { url, extras, marker })
Unnamed(url, extras, marker) ==
    [tag |-> "Unnamed", name |-> NoName, extras |-> extras, url |-> url,
     has_url |-> TRUE, marker |-> marker]

\* The Requirement carried by a Pep508 record.
inner(requirement) ==
    Requirement(requirement.name, requirement.extras,
                IF requirement.has_url THEN VersionOrUrl_Url(requirement.url)
                ELSE NoVersionOrUrl,
                requirement.marker)

(***************************************************************************)
(* Errors and the results of one resolution                                *)
(***************************************************************************)
NoError == [type |-> "", url |-> NoUrl, context |-> "", cause |-> ""]

\* The error of `requirement.url.filename()?`
FilenameError(url) == [type |-> "Filename", url |-> url, context |-> "", cause |-> ""]
\* The error of `WheelFilename::from_str(..)?`
WheelFilenameError(f) == [type |-> "InvalidWheelFileName", url |-> NoUrl, context |-> "", cause |-> f]
\* anyhow!("Unsupported scheme for unnamed requirement: {}", requirement.url)
UnsupportedScheme(url) == [type |-> "UnsupportedScheme", url |-> url, context |-> "", cause |-> ""]
\* .context("Failed to build source distribution")
BuildContextError(cause) ==
    [type |-> "Context", url |-> NoUrl, context |-> "Failed to build source distribution",
     cause |-> cause]

\* Mutant: the output requirement is built afresh, without the input's
\* extras and marker.
Named_bare(requirement, name, t) ==
    [kind |-> "Ok", trace |-> t,
     req |-> Requirement(name, {}, VersionOrUrl_Url(requirement.url), ""),
     err |-> NoError, source |-> ""]

\* Ok(Requirement { name, extras: requirement.extras,
\*                  version_or_url: Some(VersionOrUrl::Url(requirement.url)),
\*                  marker: requirement.marker })
Named(requirement, name, t) ==
    [kind |-> "Ok", trace |-> t,
     req |-> Requirement(name, requirement.extras, VersionOrUrl_Url(requirement.url),
                         requirement.marker),
     err |-> NoError, source |-> ""]

Failed(e, t) == [kind |-> "Err", trace |-> t, req |-> NoRequirement, err |-> e, source |-> ""]

\* The future suspended at `download_and_build_metadata(..).await`.
Awaiting(source, t) ==
    [kind |-> "Pending", trace |-> t, req |-> NoRequirement, err |-> NoError,
     source |-> source]

(***************************************************************************)
(* The files of a candidate directory and the build collaborator           *)
(***************************************************************************)
\* PKG-INFO: missing, unparseable, or carrying a Name field.
PkgInfoFiles == {[kind |-> "missing", name |-> NoName],
                 [kind |-> "invalid", name |-> NoName],
                 [kind |-> "ok", name |-> "foo"]}

\* A field of a TOML table: absent, a string, or a value of another type.
Absent == [kind |-> "absent", val |-> NoName]
Str(s) == [kind |-> "str", val |-> s]
NonStr == [kind |-> "int", val |-> NoName]

NoProjectTable == [present |-> FALSE, name |-> Absent]
ProjectTables == {NoProjectTable} \cup
    {[present |-> TRUE, name |-> f] : f \in {Absent, Str("bar"), Str("-bad-"), NonStr}}

NoPoetryTable == [present |-> FALSE, name |-> Absent]
PoetryTables == {NoPoetryTable} \cup
    {[present |-> TRUE, name |-> f] : f \in {Absent, Str("baz"), Str("-bad-"), NonStr}}

NoToolTable == [present |-> FALSE, poetry |-> NoPoetryTable]
ToolTables == {NoToolTable} \cup {[present |-> TRUE, poetry |-> p] : p \in PoetryTables}

\* pyproject.toml: missing, not TOML, or a document with the two tables.
PyprojectFiles ==
    {[kind |-> k, project |-> NoProjectTable, tool |-> NoToolTable] : k \in {"missing", "invalid"}}
    \cup {[kind |-> "toml", project |-> pr, tool |-> tl] : pr \in ProjectTables, tl \in ToolTables}

\* setup.cfg: missing, not INI, or one section holding one key.
SetupCfgFiles ==
    {[kind |-> k, section |-> "", key |-> "", value |-> None] : k \in {"missing", "invalid"}}
    \cup {[kind |-> "ini", section |-> sc, key |-> ky, value |-> v] :
            sc \in {"metadata", "Metadata"}, ky \in {"name", "version"},
            v \in {None, Some("qux"), Some("-bad-")}}

\* Result::Err(cause), in the shape of the options.
Err(cause) == [some |-> FALSE, val |-> cause]

\* download_and_build_metadata: Ok(metadata) with metadata.name, or an error.
BuildOutcomes == {Some("built"), Err("build backend failed"), Err("download failed")}

NoFiles == [pkg_info |-> [kind |-> "missing", name |-> NoName],
            pyproject |-> [kind |-> "missing", project |-> NoProjectTable, tool |-> NoToolTable],
            setup_cfg |-> [kind |-> "missing", section |-> "", key |-> "", value |-> None]]

\* What one requirement's locator points at.
World(is_dir, pkg_info, pyproject, setup_cfg, build) ==
    [is_dir |-> is_dir, pkg_info |-> pkg_info, pyproject |-> pyproject,
     setup_cfg |-> setup_cfg, build |-> build]

(***************************************************************************)
(* Readers                                                                 *)
(***************************************************************************)
\* fs_err::read(path.join("PKG-INFO")).ok()
\*     .and_then(|contents| Metadata10::parse_pkg_info(&contents).ok())
read_pkg_info(file) == IF file.kind = "ok" THEN Some(file.name) ELSE None

\* Deserialize a PackageName field: a string of the package-name grammar.
de_PackageName(field) ==
    IF field.kind = "str" THEN PackageName_from_str(field.val) ELSE None

\* Mutant: the name of the project table is optional.
de_Project_optional(table) == table.name.kind = "absent" \/ de_PackageName(table.name).some

\* struct Project { name: PackageName }: the name is required.
de_Project(table) == de_PackageName(table.name).some

\* Mutant: a name of tool.poetry that does not deserialize is taken as absent.
de_ToolPoetry_lenient(table) == table.name.kind \in {"absent", "str", "int"}

\* struct ToolPoetry { name: Option<PackageName> }
de_ToolPoetry(table) == table.name.kind = "absent" \/ de_PackageName(table.name).some

\* struct Tool { poetry: Option<ToolPoetry> }
de_Tool(table) == ~table.poetry.present \/ de_ToolPoetry(table.poetry)

\* fs_err::read_to_string(path.join("pyproject.toml")).ok()
\*     .and_then(|contents| toml::from_str::<PyProjectToml>(&contents).ok())
\* The whole document deserializes or none of it does.
read_pyproject(file) ==
    IF /\ file.kind = "toml"
       /\ (file.project.present => de_Project(file.project))
       /\ (file.tool.present => de_Tool(file.tool))
    THEN [some |-> TRUE,
          project |-> IF file.project.present THEN de_PackageName(file.project.name) ELSE None,
          tool |-> [some |-> file.tool.present,
                    poetry |-> [some |-> file.tool.present /\ file.tool.poetry.present,
                                name |-> IF file.tool.present /\ file.tool.poetry.present
                                         THEN de_PackageName(file.tool.poetry.name)
                                         ELSE None]]]
    ELSE [some |-> FALSE, project |-> None,
          tool |-> [some |-> FALSE, poetry |-> [some |-> FALSE, name |-> None]]]

\* Ini::new_cs(); ini.set_multiline(true); ini.read(contents).ok()
read_setup_cfg(file) == file.kind = "ini"

\* Mutant: section names are compared case-insensitively (Ini::new()).
get_section_ci(file, section) == to_ascii_lowercase(file.section) = to_ascii_lowercase(section)

\* setup_cfg.get("metadata"), compared case-sensitively
get_section(file, section) == file.section = section

\* section.get("name"): Some(Some(name)) when the key has a value
get_key(file, key) == IF file.key = key THEN file.value ELSE None

(***************************************************************************)
(* resolve_requirement: the fallback chain, last step first.  Each step    *)
(* takes the trace t of the collaborators used so far on behalf of the     *)
(* requirement and extends it with the ones it uses.                       *)
(***************************************************************************)
\* builder.download_and_build_metadata(&BuildableSource::Url(source)).await
\* The trace records the kind of source handed to the builder ("Path",
\* "Direct" or "Git") right before the build.
build_step(requirement, source, t) == Awaiting(source, Append(Append(t, source), "build"))

\* Mutant: the build's error is passed on without the context.
build_done_unwrapped(requirement, w, t) ==
    IF w.build.some
    THEN Named(requirement, w.build.val, t)
    ELSE Failed([type |-> "Build", url |-> NoUrl, context |-> "", cause |-> w.build.val], t)

\* .context("Failed to build source distribution")?; Ok(Requirement { name: metadata.name, .. })
build_done(requirement, w, t) ==
    IF w.build.some
    THEN Named(requirement, w.build.val, t)
    ELSE Failed(BuildContextError(w.build.val), t)

\* Attempt to read a `setup.cfg` from the directory.
setup_cfg_step(requirement, w, t) ==
    LET t1 == Append(t, "setup.cfg")
        name == IF read_setup_cfg(w.setup_cfg) /\ get_section(w.setup_cfg, "metadata")
                THEN get_key(w.setup_cfg, "name")
                ELSE None
        parsed == IF name.some THEN PackageName_from_str(name.val) ELSE None
    IN  IF parsed.some
        THEN Named(requirement, parsed.val, t1)
        ELSE build_step(requirement, "Path", t1)

\* Attempt to read a `pyproject.toml` file.
pyproject_step(requirement, w, t) ==
    LET t1 == Append(t, "pyproject.toml")
        pyproject == read_pyproject(w.pyproject)
    IN  IF pyproject.some /\ pyproject.project.some
        THEN Named(requirement, pyproject.project.val, t1)
        ELSE IF /\ pyproject.some
                /\ pyproject.tool.some
                /\ pyproject.tool.poetry.some
                /\ pyproject.tool.poetry.name.some
        THEN Named(requirement, pyproject.tool.poetry.name.val, t1)
        ELSE setup_cfg_step(requirement, w, t1)

\* Mutant: PKG-INFO is consulted only after pyproject.toml yielded no name.
pkg_info_step_late(requirement, w, t) ==
    LET t1 == Append(t, "pyproject.toml")
        t2 == Append(t1, "PKG-INFO")
        pyproject == read_pyproject(w.pyproject)
        metadata == read_pkg_info(w.pkg_info)
    IN  IF pyproject.some /\ pyproject.project.some
        THEN Named(requirement, pyproject.project.val, t1)
        ELSE IF metadata.some
        THEN Named(requirement, metadata.val, t2)
        ELSE setup_cfg_step(requirement, w, t2)

\* Attempt to read a `PKG-INFO` from the directory.
pkg_info_step(requirement, w, t) ==
    LET t1 == Append(t, "PKG-INFO")
        metadata == read_pkg_info(w.pkg_info)
    IN  IF metadata.some
        THEN Named(requirement, metadata.val, t1)
        ELSE pyproject_step(requirement, w, t1)

\* Mutant: the static metadata is read whether or not the path is a directory.
file_step_any(requirement, w, t) == pkg_info_step(requirement, w, Append(t, "is_dir"))

\* Some(Scheme::File): to_file_path, then the static metadata of a directory.
file_step(requirement, w, t) ==
    LET t1 == Append(t, "is_dir")
    IN  IF w.is_dir
        THEN pkg_info_step(requirement, w, t1)
        ELSE build_step(requirement, "Path", t1)

\* Mutant: a scheme that is neither file nor git is taken for a direct url.
source_step_direct(requirement, w, t) ==
    LET t1 == Append(t, "Scheme")
        scheme == Scheme_parse(requirement.url.scheme)
    IN  CASE scheme = Some("File") -> file_step(requirement, w, t1)
          [] scheme \in {Some("GitSsh"), Some("GitHttps")} -> build_step(requirement, "Git", t1)
          [] OTHER -> build_step(requirement, "Direct", t1)

\* let source = match Scheme::parse(requirement.url.scheme()) { .. }
source_step(requirement, w, t) ==
    LET t1 == Append(t, "Scheme")
        scheme == Scheme_parse(requirement.url.scheme)
    IN  CASE scheme = Some("File") -> file_step(requirement, w, t1)
          [] scheme \in {Some("Http"), Some("Https")} -> build_step(requirement, "Direct", t1)
          [] scheme \in {Some("GitSsh"), Some("GitHttps")} -> build_step(requirement, "Git", t1)
          [] OTHER -> Failed(UnsupportedScheme(requirement.url), t1)

\* Mutant: a missing or unparseable source-distribution filename is fatal.
sdist_step_strict(requirement, w, t) ==
    LET f == filename(requirement.url)
        t1 == Append(t, "filename")
        t2 == Append(t1, "SourceDistFilename")
        parsed == IF f.some THEN SourceDistFilename_parsed_normalized_filename(f.val) ELSE None
    IN  IF ~f.some THEN Failed(FilenameError(requirement.url), t1)
        ELSE IF parsed.some THEN Named(requirement, parsed.val, t2)
        ELSE Failed(FilenameError(requirement.url), t2)

\* If the requirement is a source archive, try to extract the package name
\* from the archive filename.
sdist_step(requirement, w, t) ==
    LET f == filename(requirement.url)
        t1 == Append(t, "filename")
        t2 == Append(t1, "SourceDistFilename")
        parsed == IF f.some THEN SourceDistFilename_parsed_normalized_filename(f.val) ELSE None
    IN  IF ~f.some THEN source_step(requirement, w, t1)
        ELSE IF parsed.some THEN Named(requirement, parsed.val, t2)
        ELSE source_step(requirement, w, t2)

\* Mutant: the extension is compared case-sensitively.
is_wheel_exact(url) ==
    LET ext == extension(url.path)
    IN  ext.some /\ ext.val = "whl"

\* Path::new(requirement.url.path()).extension()
\*     .is_some_and(|ext| ext.eq_ignore_ascii_case("whl"))
is_wheel(url) ==
    LET ext == extension(url.path)
    IN  ext.some /\ eq_ignore_ascii_case(ext.val, "whl")

\* If the requirement is a wheel, extract the package name from the wheel filename.
wheel_step(requirement, t) ==
    LET f == filename(requirement.url)
        t1 == Append(t, "filename")
        t2 == Append(t1, "WheelFilename")
        parsed == IF f.some THEN WheelFilename_from_str(f.val) ELSE None
    IN  IF ~f.some THEN Failed(FilenameError(requirement.url), t1)
        ELSE IF parsed.some THEN Named(requirement, parsed.val, t2)
        ELSE Failed(WheelFilenameError(f.val), t2)

\* resolve_requirement up to its first suspension: a result, or the future
\* left awaiting the build.
resolve_requirement(requirement, w) ==
    IF is_wheel(requirement.url)
    THEN wheel_step(requirement, <<>>)
    ELSE sdist_step(requirement, w, <<>>)

\* Mutant: the closure sends every requirement that carries a url through
\* resolve_requirement, named or not.
map_closure_resolve_all(requirement, w) ==
    IF requirement.tag = "Pep508" /\ ~requirement.has_url
    THEN [kind |-> "Ok", trace |-> <<>>, req |-> inner(requirement), err |-> NoError,
          source |-> ""]
    ELSE resolve_requirement(requirement, w)

\* The closure of `.map(|requirement| async { match requirement { .. } })`
map_closure(requirement, w) ==
    IF requirement.tag = "Pep508"
    THEN [kind |-> "Ok", trace |-> <<>>, req |-> inner(requirement), err |-> NoError,
          source |-> ""]
    ELSE resolve_requirement(requirement, w)

(***************************************************************************)
(* State of one `resolve` call                                             *)
(***************************************************************************)
VARIABLES
    requirements,  \* self.requirements, the input list
    world,         \* world[i]: what the locator of requirement i points at
    next,          \* position of stream::iter: the next requirement to map
    status,        \* status[i]: where the future of requirement i stands
    trace,         \* trace[i]: collaborators used on behalf of requirement i
    output,        \* output[i]: the result the future of requirement i produced
    completion,    \* indices of the futures in the order they completed
    collected,     \* the Vec that try_collect has gathered so far
    ret            \* what `resolve` returned, once it has

vars == <<requirements, world, next, status, trace, output, completion, collected, ret>>

N == Len(requirements)

NoOutput == [kind |-> "None", trace |-> <<>>, req |-> NoRequirement, err |-> NoError,
             source |-> ""]

NotReturned == [kind |-> "Pending", vec |-> <<>>, err |-> NoError]

\* Futures held by the Buffered adaptor: the FuturesOrdered queue counts the
\* futures still running and the outputs waiting for their turn.
InQueue == {i \in 1..N : status[i] \in {"created", "building", "built", "ready"}}

\* Futures started whose output is not there yet.
InFlight == {i \in 1..N : status[i] \in {"created", "building", "built"}}

(***************************************************************************)
(* Inputs                                                                  *)
(***************************************************************************)
\* Extras and marker of an unnamed requirement, opaque to the resolver.
Decorations == {[extras |-> {}, marker |-> ""],
                [extras |-> {"cli"}, marker |-> "os_name == 'nt'"]}

\* Every unnamed requirement of the model with what its locator points at.
\* Only a file locator that is a directory has files to read.
UnnamedInputs ==
    {<<Unnamed([scheme |-> sch, path |-> p], d.extras, d.marker),
       World(FALSE, NoFiles.pkg_info, NoFiles.pyproject, NoFiles.setup_cfg, b)>> :
        sch \in Schemes, p \in Paths, d \in Decorations, b \in BuildOutcomes}
    \cup
    {<<Unnamed([scheme |-> "file", path |-> p], d.extras, d.marker),
       World(TRUE, pk, py, sc, b)>> :
        p \in Paths, d \in Decorations, pk \in PkgInfoFiles, py \in PyprojectFiles,
        sc \in SetupCfgFiles, b \in BuildOutcomes}

RemoteWorld(b) == World(FALSE, NoFiles.pkg_info, NoFiles.pyproject, NoFiles.setup_cfg, b)

\* The requirements of the batch specification: one already named, one
\* named by its wheel filename, one with an unsupported scheme, and two
\* that need a build (one succeeding, one failing).
BatchInputs ==
    {<<Pep508(Requirement("foo", {"cli"},
                          VersionOrUrl_Url([scheme |-> "ftp", path |-> "pkg-1.0.whl"]), "")),
       RemoteWorld(Some("built"))>>,
     <<Unnamed([scheme |-> "https", path |-> "pkg-1.0-py3-none-any.whl"], {}, ""),
       RemoteWorld(Some("built"))>>,
     <<Unnamed([scheme |-> "ftp", path |-> "project"], {}, ""), RemoteWorld(Some("built"))>>,
     <<Unnamed([scheme |-> "https", path |-> "project"], {}, ""), RemoteWorld(Some("built"))>>,
     <<Unnamed([scheme |-> "git+https", path |-> "project"], {}, ""), RemoteWorld(Err("build backend failed"))>>}

Lists(S, n) == UNION {[1..k -> S] : k \in 0..n}

Start(inputs) ==
    /\ requirements = [i \in DOMAIN inputs |-> inputs[i][1]]
    /\ world = [i \in DOMAIN inputs |-> inputs[i][2]]
    /\ next = 1
    /\ status = [i \in DOMAIN inputs |-> "unstarted"]
    /\ trace = [i \in DOMAIN inputs |-> <<>>]
    /\ output = [i \in DOMAIN inputs |-> NoOutput]
    /\ completion = <<>>
    /\ collected = <<>>
    /\ ret = NotReturned

\* A batch of up to MaxLen requirements.
Init == \E inputs \in Lists(BatchInputs, MaxLen) : Start(inputs)

\* One unnamed requirement, drawn from the whole input space.
InitOne == \E input \in UnnamedInputs : Start(<<input>>)

(***************************************************************************)
(* Steps of the stream `iter(..).map(..).buffered(50).try_collect()`       *)
(***************************************************************************)
\* Mutant: the stream is drained without a ceiling.
Push_unbounded ==
    /\ ret.kind = "Pending"
    /\ next <= N
    /\ status' = [status EXCEPT ![next] = "created"]
    /\ next' = next + 1
    /\ UNCHANGED <<requirements, world, trace, output, completion, collected, ret>>

\* Mutant: only the futures still running count against the ceiling, not
\* the outputs waiting to be handed out.
CanPush_running ==
    /\ ret.kind = "Pending"
    /\ next <= N
    /\ Cardinality(InFlight) < BufferedMax

\* Mutant: a place in the window is never given back, so that no more
\* requirements than the ceiling are ever taken from the stream.
CanPush_total ==
    /\ ret.kind = "Pending"
    /\ next <= N
    /\ next <= BufferedMax

\* Buffered::poll_next can take another requirement from the stream.
CanPush ==
    /\ ret.kind = "Pending"
    /\ next <= N
    /\ Cardinality(InQueue) < BufferedMax

\* The index whose output the ordered queue hands out next.
next_outgoing == Len(collected) + 1

\* The output of the next index is there: the queue hands it out before it
\* polls any future.
CanYield ==
    /\ ret.kind = "Pending"
    /\ next_outgoing <= N
    /\ status[next_outgoing] = "ready"

\* Buffered::poll_next, first half: while the queue holds fewer than the
\* ceiling, take the next requirement and queue its future.  Every poll of
\* the stream starts with this loop, so it runs before anything else.
Push ==
    /\ CanPush
    /\ status' = [status EXCEPT ![next] = "created"]
    /\ next' = next + 1
    /\ UNCHANGED <<requirements, world, trace, output, completion, collected, ret>>

\* Mutant: futures are polled although the queue has an output to hand out.
Poll_eager(i) ==
    /\ ret.kind = "Pending"
    /\ ~CanPush
    /\ status[i] = "created"
    /\ \A j \in 1..(i - 1) : status[j] # "created"
    /\ LET res == map_closure(requirements[i], world[i])
       IN  /\ trace' = [trace EXCEPT ![i] = res.trace]
           /\ IF res.kind = "Pending"
              THEN /\ status' = [status EXCEPT ![i] = "building"]
                   /\ UNCHANGED <<output, completion>>
              ELSE /\ status' = [status EXCEPT ![i] = "ready"]
                   /\ output' = [output EXCEPT ![i] = res]
                   /\ completion' = Append(completion, i)
    /\ UNCHANGED <<requirements, world, next, collected, ret>>

\* First poll of the future of requirement i: it runs to a result or to
\* the await of the build.  Futures are polled once the queue is filled and
\* has no output to hand out, new ones in the order they were queued.
Poll(i) ==
    /\ ret.kind = "Pending"
    /\ ~CanPush /\ ~CanYield
    /\ status[i] = "created"
    /\ \A j \in 1..(i - 1) : status[j] # "created"
    /\ LET res == map_closure(requirements[i], world[i])
       IN  /\ trace' = [trace EXCEPT ![i] = res.trace]
           /\ IF res.kind = "Pending"
              THEN /\ status' = [status EXCEPT ![i] = "building"]
                   /\ UNCHANGED <<output, completion>>
              ELSE /\ status' = [status EXCEPT ![i] = "ready"]
                   /\ output' = [output EXCEPT ![i] = res]
                   /\ completion' = Append(completion, i)
    /\ UNCHANGED <<requirements, world, next, collected, ret>>

\* The build collaborator finishes and wakes the future of requirement i.
BuildFinish(i) ==
    /\ ret.kind = "Pending"
    /\ status[i] = "building"
    /\ status' = [status EXCEPT ![i] = "built"]
    /\ UNCHANGED <<requirements, world, next, trace, output, completion, collected, ret>>

\* The woken future is polled again and completes with the build's outcome.
Resume(i) ==
    /\ ret.kind = "Pending"
    /\ ~CanPush /\ ~CanYield
    /\ status[i] = "built"
    /\ status' = [status EXCEPT ![i] = "ready"]
    /\ output' = [output EXCEPT ![i] = build_done(requirements[i], world[i], trace[i])]
    /\ completion' = Append(completion, i)
    /\ UNCHANGED <<requirements, world, next, trace, collected, ret>>

\* Mutant: on an Err the Vec gathered so far is returned as the result.
YieldAt_partial(k) ==
    /\ ret.kind = "Pending"
    /\ k <= N
    /\ status[k] = "ready"
    /\ IF output[k].kind = "Ok"
       THEN /\ collected' = Append(collected, output[k].req)
            /\ status' = [status EXCEPT ![k] = "yielded"]
            /\ ret' = ret
       ELSE /\ collected' = collected
            /\ status' = [i \in 1..N |->
                            IF i = k THEN "yielded"
                            ELSE IF status[i] \in {"unstarted", "yielded"} THEN status[i]
                            ELSE "dropped"]
            /\ ret' = [kind |-> "Ok", vec |-> collected, err |-> NoError]
    /\ UNCHANGED <<requirements, world, next, trace, output, completion>>

\* Mutant: returning the error leaves the futures of the queue alive.
YieldAt_nodrop(k) ==
    /\ ret.kind = "Pending"
    /\ k <= N
    /\ status[k] = "ready"
    /\ IF output[k].kind = "Ok"
       THEN /\ collected' = Append(collected, output[k].req)
            /\ status' = [status EXCEPT ![k] = "yielded"]
            /\ ret' = ret
       ELSE /\ collected' = collected
            /\ status' = [status EXCEPT ![k] = "yielded"]
            /\ ret' = [kind |-> "Err", vec |-> <<>>, err |-> output[k].err]
    /\ UNCHANGED <<requirements, world, next, trace, output, completion>>

\* try_collect receives the output of future k: it pushes an Ok onto the Vec
\* and returns on an Err, which drops the stream and the futures it holds.
YieldAt(k) ==
    /\ ret.kind = "Pending"
    /\ k <= N
    /\ status[k] = "ready"
    /\ IF output[k].kind = "Ok"
       THEN /\ collected' = Append(collected, output[k].req)
            /\ status' = [status EXCEPT ![k] = "yielded"]
            /\ ret' = ret
       ELSE /\ collected' = collected
            /\ status' = [i \in 1..N |->
                            IF i = k THEN "yielded"
                            ELSE IF status[i] \in {"unstarted", "yielded"} THEN status[i]
                            ELSE "dropped"]
            /\ ret' = [kind |-> "Err", vec |-> <<>>, err |-> output[k].err]
    /\ UNCHANGED <<requirements, world, next, trace, output, completion>>

\* Mutant: outputs are handed out as they complete (buffer_unordered).
Yield_unordered == \E k \in 1..N : YieldAt(k)

\* Mutant: of the outputs that are ready the one of the highest index is
\* handed out first.
Yield_newest ==
    /\ ~CanPush
    /\ \E k \in 1..N :
        /\ \A j \in 1..N : status[j] = "ready" => j <= k
        /\ YieldAt(k)

\* Buffered hands out the outputs in the order of the futures (FuturesOrdered).
Yield == ~CanPush /\ YieldAt(next_outgoing)

\* The stream is exhausted and the queue empty: try_collect returns the Vec.
Return ==
    /\ ret.kind = "Pending"
    /\ next > N
    /\ InQueue = {}
    /\ ret' = [kind |-> "Ok", vec |-> collected, err |-> NoError]
    /\ UNCHANGED <<requirements, world, next, status, trace, output, completion, collected>>

Next ==
    \/ Push
    \/ \E i \in 1..N : Poll(i)
    \/ \E i \in 1..N : BuildFinish(i)
    \/ \E i \in 1..N : Resume(i)
    \/ Yield
    \/ Return

Spec == Init /\ [][Next]_vars

SpecOne == InitOne /\ [][Next]_vars

\* The steps of the task that runs resolve: the executor keeps polling it
\* while it can make progress.
Orchestrate ==
    \/ Push
    \/ \E i \in 1..N : Poll(i)
    \/ \E i \in 1..N : Resume(i)
    \/ Yield
    \/ Return

\* Spec under fair scheduling: the task of resolve is polled as long as it
\* can take a step, and a build that was started finishes.
SpecFair ==
    /\ Init
    /\ [][Next]_vars
    /\ WF_vars(Orchestrate)
    /\ WF_vars(\E i \in 1..N : BuildFinish(i))

(***************************************************************************)
(* Properties of the batch (specification Spec)                            *)
(***************************************************************************)
\* resolve_requirement run to its end: the first poll and, where the future
\* awaited the build, the build's outcome.
Resolved(requirement, w) ==
    LET res == map_closure(requirement, w)
    IN  IF res.kind = "Pending" THEN build_done(requirement, w, res.trace) ELSE res

\* C1: when resolve succeeds the output list is as long as the input list
\* and its element i is the result of resolving input element i, whatever
\* the order in which the futures completed.
C1_OutputOrderIsInputOrder ==
    ret.kind = "Ok" =>
        /\ Len(ret.vec) = N
        /\ \A i \in 1..N : ret.vec[i] = Resolved(requirements[i], world[i]).req

\* A successful batch whose futures completed out of order, with results
\* that differ between the two positions.
C1_Witness ==
    /\ ret.kind = "Ok"
    /\ \E a, b \in 1..Len(completion) :
        /\ a < b
        /\ completion[a] > completion[b]
        /\ ret.vec[completion[a]] # ret.vec[completion[b]]

\* C2: the resolutions started and not yet completed never outnumber the
\* ceiling passed to `buffered`.
C2_InFlightAtMostCeiling == Cardinality(InFlight) <= BufferedMax

\* The ceiling is reached while requirements are still waiting to start.
C2_Witness == Cardinality(InFlight) = BufferedMax /\ next <= N

\* C3: resolve returns either a list naming every input requirement or one
\* error and no list; it returns the error of a failing requirement whenever
\* it returns an error, and never a list when some requirement fails.
C3_AllOrNothing ==
    /\ ret.kind = "Ok" =>
        /\ Len(ret.vec) = N
        /\ \A i \in 1..N : /\ Resolved(requirements[i], world[i]).kind = "Ok"
                           /\ ret.vec[i].name \in ValidNames
        /\ ret.err = NoError
    /\ ret.kind = "Err" =>
        /\ ret.vec = <<>>
        /\ \E i \in 1..N : /\ Resolved(requirements[i], world[i]).kind = "Err"
                           /\ ret.err = Resolved(requirements[i], world[i]).err
    /\ (\E i \in 1..N : output[i].kind = "Err") => ret.kind # "Ok"

\* The batch failed although requirements before and after the failing one
\* had resolved successfully.
C3_Witness ==
    /\ ret.kind = "Err"
    /\ collected # <<>>
    /\ \E i, j \in 1..N : i < j /\ output[i].kind = "Err" /\ output[j].kind = "Ok"

\* C4: an already-named requirement uses no collaborator (no filename
\* parsing, scheme classification, directory read or build), never awaits,
\* and its future's output, like the element at its position of a returned
\* list, is the requirement itself.
C4_NamedPassThrough ==
    \A i \in 1..N : requirements[i].tag = "Pep508" =>
        /\ trace[i] = <<>>
        /\ status[i] \notin {"building", "built"}
        /\ output[i] # NoOutput =>
            output[i].kind = "Ok" /\ output[i].req = inner(requirements[i])
        /\ ret.kind = "Ok" => ret.vec[i] = inner(requirements[i])

\* A returned list holding a named requirement next to a resolved one.
C4_Witness ==
    /\ ret.kind = "Ok"
    /\ \E i, j \in 1..N : /\ requirements[i].tag = "Pep508"
                          /\ requirements[j].tag = "Unnamed"
                          /\ ret.vec[i] = inner(requirements[i])

(***************************************************************************)
(* Properties of one resolution (specification SpecOne)                    *)
(***************************************************************************)
\* Path segments whose extension is `whl` in some case.
WheelPaths == {"pkg-1.0-py3-none-any.whl", "pkg-1.0.whl", "pkg-1.0.WHL", "%FF.whl"}

SupportedSchemes == {"file", "http", "https", "git+ssh", "git+https"}

\* The future of requirement i has been polled.
Acted(i) == output[i] # NoOutput \/ status[i] \in {"building", "built"}

Used(i, what) == \E k \in 1..Len(trace[i]) : trace[i][k] = what

\* The files of the directory read on behalf of requirement i, in order.
IsReader(what) == what \in {"PKG-INFO", "pyproject.toml", "setup.cfg"}
Readers(i) == SelectSeq(trace[i], IsReader)

\* The source-distribution name of the locator's filename, if it has one.
SdistName(url) ==
    IF filename(url).some
    THEN SourceDistFilename_parsed_normalized_filename(filename(url).val)
    ELSE None

\* C5: for a locator whose path has the extension whl in any case, only
\* the filename and the wheel-filename parser are used (no sdist parse, no
\* scheme classification, no directory read, no build); a valid wheel
\* filename yields its name, and a filename that fails the wheel grammar
\* fails the requirement, and the batch, with the malformed-filename error.
C5_WheelStepDecides ==
    \A i \in 1..N :
        (requirements[i].tag = "Unnamed" /\ requirements[i].url.path \in WheelPaths) =>
            LET f == filename(requirements[i].url)
                valid == f.some /\ WheelFilename_from_str(f.val).some
            IN  /\ status[i] \notin {"building", "built"}
                /\ \A k \in 1..Len(trace[i]) : trace[i][k] \in {"filename", "WheelFilename"}
                /\ Acted(i) =>
                    /\ valid =>
                        /\ output[i].kind = "Ok"
                        /\ output[i].req.name = WheelFilename_from_str(f.val).val
                    /\ (f.some /\ ~valid) =>
                        /\ output[i].kind = "Err"
                        /\ output[i].err.type = "InvalidWheelFileName"
                        /\ ret.kind # "Ok"
                        /\ (N = 1 /\ ret.kind = "Err") => ret.err = output[i].err

\* A wheel-like filename with an upper-case extension that fails the wheel
\* grammar has failed the batch, on a directory with readable metadata.
C5_Witness ==
    /\ N = 1
    /\ requirements[1].url.path = "pkg-1.0.WHL"
    /\ world[1].is_dir
    /\ world[1].pkg_info.kind = "ok"
    /\ ret.kind = "Err"
    /\ ret.err.type = "InvalidWheelFileName"

\* C6: without a wheel extension, a filename that parses as a source
\* distribution yields its name with no scheme classification and no build;
\* a filename that does not parse, or a locator without a filename, raises
\* no error of its own and resolution continues with source classification.
C6_SdistStep ==
    \A i \in 1..N :
        (/\ requirements[i].tag = "Unnamed"
         /\ requirements[i].url.path \notin WheelPaths
         /\ Acted(i)) =>
            IF SdistName(requirements[i].url).some
            THEN /\ output[i].kind = "Ok"
                 /\ output[i].req.name = SdistName(requirements[i].url).val
                 /\ trace[i] = <<"filename", "SourceDistFilename">>
            ELSE /\ Used(i, "Scheme")
                 /\ ~Used(i, "WheelFilename")
                 /\ output[i].kind = "Err" =>
                        output[i].err.type \in {"UnsupportedScheme", "Context"}

\* A locator without a filename went on through classification to a name.
C6_Witness ==
    /\ N = 1
    /\ requirements[1].url.path = "%FF"
    /\ Used(1, "Scheme")
    /\ ret.kind = "Ok"

\* C7 as stated: every unnamed requirement whose scheme is none of file,
\* http, https, git+ssh, git+https fails with the unsupported-scheme error
\* naming the locator, without directory read or build.
C7_Original ==
    \A i \in 1..N :
        (/\ requirements[i].tag = "Unnamed"
         /\ requirements[i].url.scheme \notin SupportedSchemes) =>
            /\ ~Used(i, "is_dir") /\ Readers(i) = <<>> /\ ~Used(i, "build")
            /\ Acted(i) =>
                /\ output[i].kind = "Err"
                /\ output[i].err = UnsupportedScheme(requirements[i].url)

\* C7 amended: an unnamed requirement with an unsupported scheme uses no
\* directory read and no build; it fails with the unsupported-scheme error
\* naming the locator unless a filename step decides first, which happens
\* when the path has a wheel extension or the filename parses as a source
\* distribution, and then the scheme is never classified.
C7_UnsupportedScheme ==
    \A i \in 1..N :
        (/\ requirements[i].tag = "Unnamed"
         /\ requirements[i].url.scheme \notin SupportedSchemes) =>
            /\ ~Used(i, "is_dir") /\ Readers(i) = <<>> /\ ~Used(i, "build")
            /\ status[i] \notin {"building", "built"}
            /\ Acted(i) =>
                IF \/ requirements[i].url.path \in WheelPaths
                   \/ SdistName(requirements[i].url).some
                THEN ~Used(i, "Scheme") /\ output[i].err.type # "UnsupportedScheme"
                ELSE /\ output[i].kind = "Err"
                     /\ output[i].err = UnsupportedScheme(requirements[i].url)
                     /\ (N = 1 /\ ret.kind # "Pending") => ret.err = output[i].err

\* An ftp locator with a plain filename failed the batch with the error
\* naming it.
C7_Witness ==
    /\ N = 1
    /\ requirements[1].url = [scheme |-> "ftp", path |-> "project"]
    /\ ret.kind = "Err"
    /\ ret.err = UnsupportedScheme(requirements[1].url)

\* The requirement is a file locator of a directory that no filename step
\* decides, so the static readers are reached.
ReachesReaders(i) ==
    /\ requirements[i].tag = "Unnamed"
    /\ requirements[i].url.scheme = "file"
    /\ world[i].is_dir
    /\ requirements[i].url.path \notin WheelPaths
    /\ ~SdistName(requirements[i].url).some

\* The name the decoded pyproject.toml offers, from the raw document.
WellTyped(field) == field.kind = "str" /\ field.val \in ValidNames
Decodes(file) ==
    /\ file.kind = "toml"
    /\ file.project.present => WellTyped(file.project.name)
    /\ (file.tool.present /\ file.tool.poetry.present
            /\ file.tool.poetry.name.kind # "absent") => WellTyped(file.tool.poetry.name)
HasPoetryName(file) ==
    file.tool.present /\ file.tool.poetry.present /\ file.tool.poetry.name.kind = "str"
PyprojectYields(file) ==
    Decodes(file) /\ (file.project.present \/ HasPoetryName(file))

C9_Original ==
    \A i \in 1..N :
        (Used(i, "pyproject.toml") /\ Acted(i) /\ world[i].pyproject.kind = "toml") =>
            LET file == world[i].pyproject
            IN  /\ (file.project.present /\ WellTyped(file.project.name)) =>
                    output[i].kind = "Ok" /\ output[i].req.name = file.project.name.val
                /\ (/\ ~file.project.present \/ file.project.name.kind = "absent"
                    /\ HasPoetryName(file)
                    /\ WellTyped(file.tool.poetry.name)) =>
                    output[i].kind = "Ok" /\ output[i].req.name = file.tool.poetry.name.val

\* C9 amended: once pyproject.toml is read and decodes as a whole, the name
\* of a present project table is the result, and with the project table
\* absent a name in the tool.poetry table is the result; a file that does
\* not decode, as one whose project table is present without a name, yields
\* no name even if tool.poetry has one, and setup.cfg is read next.
C9_PyprojectNames ==
    \A i \in 1..N :
        (Used(i, "pyproject.toml") /\ Acted(i)) =>
            LET file == world[i].pyproject
            IN  /\ (Decodes(file) /\ file.project.present) =>
                    /\ output[i].kind = "Ok"
                    /\ output[i].req.name = file.project.name.val
                    /\ ~Used(i, "setup.cfg")
                /\ (Decodes(file) /\ ~file.project.present /\ HasPoetryName(file)) =>
                    /\ output[i].kind = "Ok"
                    /\ output[i].req.name = file.tool.poetry.name.val
                    /\ ~Used(i, "setup.cfg")
                /\ (\/ ~Decodes(file)
                    \/ file.project.present /\ file.project.name.kind = "absent") =>
                    /\ Used(i, "setup.cfg")
                    /\ output[i].kind = "Ok" => output[i].req.name \in {"qux", "built"}

\* A project table without a name hid the name of tool.poetry: setup.cfg
\* was read and the requirement got its name elsewhere.
C9_Witness ==
    /\ N = 1
    /\ world[1].pyproject.kind = "toml"
    /\ world[1].pyproject.project = [present |-> TRUE, name |-> Absent]
    /\ world[1].pyproject.tool.present
    /\ world[1].pyproject.tool.poetry = [present |-> TRUE, name |-> Str("baz")]
    /\ Used(1, "setup.cfg")
    /\ ret.kind = "Ok"
    /\ ret.vec[1].name # "baz"

\* C10: once setup.cfg is read, a file that parses and holds section
\* `metadata` with key `name` whose value is a valid package name yields that
\* name with no build; in every other case (missing or unparseable file,
\* other section or key, key without value, invalid name) no error is
\* raised on its account and the build is started.
C10_SetupCfg ==
    \A i \in 1..N :
        (Used(i, "setup.cfg") /\ Acted(i)) =>
            LET file == world[i].setup_cfg
                good == /\ file.kind = "ini"
                        /\ file.section = "metadata"
                        /\ file.key = "name"
                        /\ file.value.some
                        /\ file.value.val \in ValidNames
            IN  IF good
                THEN /\ output[i].kind = "Ok"
                     /\ output[i].req.name = file.value.val
                     /\ ~Used(i, "build")
                ELSE /\ Used(i, "build")
                     /\ output[i].kind = "Err" =>
                            output[i].err = BuildContextError(world[i].build.val)
                     /\ output[i].kind = "Ok" => output[i].req.name = world[i].build.val

\* A directory whose only metadata is setup.cfg was named from it.
C10_Witness ==
    /\ N = 1
    /\ world[1].pkg_info.kind = "missing"
    /\ world[1].pyproject.kind = "missing"
    /\ world[1].setup_cfg = [kind |-> "ini", section |-> "metadata", key |-> "name",
                             value |-> Some("qux")]
    /\ ~world[1].build.some
    /\ ret.kind = "Ok"
    /\ ret.vec[1].name = "qux"

\* How often the build collaborator was invoked on behalf of requirement i.
Builds(i) == Cardinality({k \in 1..Len(trace[i]) : trace[i][k] = "build"})

\* The value of setup.cfg's metadata/name is a valid package name.
SetupCfgYields(file) ==
    /\ file.kind = "ini"
    /\ file.section = "metadata"
    /\ file.key = "name"
    /\ file.value.some
    /\ file.value.val \in ValidNames

\* A filename step produced a name for requirement i.
FilenameNamed(i) ==
    LET url == requirements[i].url
    IN  IF url.path \in WheelPaths
        THEN filename(url).some /\ WheelFilename_from_str(filename(url).val).some
        ELSE SdistName(url).some

\* A filename step ended the resolution of requirement i, with a name or
\* with the fatal error of the wheel step.
FilenameDecides(i) ==
    requirements[i].url.path \in WheelPaths \/ SdistName(requirements[i].url).some

\* A static reader produced a name for requirement i.
ReaderNamed(i) ==
    /\ ReachesReaders(i)
    /\ \/ world[i].pkg_info.kind = "ok"
       \/ PyprojectYields(world[i].pyproject)
       \/ SetupCfgYields(world[i].setup_cfg)

\* The outcome of a build that was started, for a requirement whose future
\* has completed.
BuildOutcomeKept(i) ==
    (Used(i, "build") /\ output[i] # NoOutput) =>
        /\ world[i].build.some =>
            output[i].kind = "Ok" /\ output[i].req.name = world[i].build.val
        /\ ~world[i].build.some =>
            /\ output[i].kind = "Err"
            /\ output[i].err.context = "Failed to build source distribution"
            /\ output[i].err.cause = world[i].build.val
            /\ (N = 1 /\ ret.kind # "Pending") => ret.kind = "Err" /\ ret.err = output[i].err

\* C11 as stated: with a supported scheme the build is invoked exactly once
\* if and only if no filename step and no static reader produced a name;
\* its name is the result and its error is wrapped with the cause kept.
C11_Original ==
    \A i \in 1..N :
        (/\ requirements[i].tag = "Unnamed"
         /\ requirements[i].url.scheme \in SupportedSchemes
         /\ Acted(i)) =>
            /\ Builds(i) = (IF ~FilenameNamed(i) /\ ~ReaderNamed(i) THEN 1 ELSE 0)
            /\ BuildOutcomeKept(i)

\* C11 amended: with a supported scheme the build is invoked exactly once
\* if and only if no filename step ended the resolution (with a name or with
\* the fatal error of a wheel-like filename) and no static reader produced a
\* name; its name is the result and its error is wrapped with the cause kept.
C11_BuildFallback ==
    \A i \in 1..N :
        (/\ requirements[i].tag = "Unnamed"
         /\ requirements[i].url.scheme \in SupportedSchemes
         /\ Acted(i)) =>
            /\ Builds(i) = (IF ~FilenameDecides(i) /\ ~ReaderNamed(i) THEN 1 ELSE 0)
            /\ BuildOutcomeKept(i)

\* An https locator with a plain filename was built once and the failure of
\* the build failed the batch, wrapped.
C11_Witness ==
    /\ N = 1
    /\ requirements[1].url = [scheme |-> "https", path |-> "project"]
    /\ world[1].build = Err("download failed")
    /\ Builds(1) = 1
    /\ ret.kind = "Err"
    /\ ret.err = BuildContextError("download failed")

\* The step of the chain that named requirement i: the last collaborator
\* used on its behalf.
NamedBy(i) == trace[i][Len(trace[i])]

\* C12: whichever step names an unnamed requirement, the output carries the
\* input's extras and marker, its version specifier is the url variant
\* holding the input's locator, and its name is a package name; the element
\* of a returned list is that output.
C12_OnlyNameAdded ==
    \A i \in 1..N :
        (requirements[i].tag = "Unnamed" /\ output[i].kind = "Ok") =>
            /\ output[i].req.extras = requirements[i].extras
            /\ output[i].req.marker = requirements[i].marker
            /\ output[i].req.version_or_url = [kind |-> "Url", url |-> requirements[i].url]
            /\ output[i].req.name \in ValidNames
            /\ NamedBy(i) \in {"WheelFilename", "SourceDistFilename", "PKG-INFO",
                               "pyproject.toml", "setup.cfg", "build"}
            /\ ret.kind = "Ok" => ret.vec[i] = output[i].req

\* A requirement with extras and a marker was named from tool.poetry and
\* returned.
C12_Witness ==
    /\ N = 1
    /\ requirements[1].extras = {"cli"}
    /\ requirements[1].marker = "os_name == 'nt'"
    /\ ret.kind = "Ok"
    /\ NamedBy(1) = "pyproject.toml"
    /\ ret.vec[1].name = "baz"
    /\ ret.vec[1].extras = {"cli"}

\* The scheme of requirement i's locator has been classified.
Classified(i) == Used(i, "Scheme")

\* What was used on behalf of requirement i after the classification.
AfterScheme(i) ==
    LET k == CHOOSE k \in 1..Len(trace[i]) : trace[i][k] = "Scheme"
    IN  SubSeq(trace[i], k + 1, Len(trace[i]))

\* C14: the directory test is made only for a file locator and the static
\* readers are used only for a file locator that is a directory; an
\* http/https locator, a git locator and a file locator that is no
\* directory go from the classification straight to one build, whose
\* source is of kind Direct, Git and Path respectively.
C14_SourceKinds ==
    \A i \in 1..N : (Acted(i) /\ Classified(i)) =>
        LET scheme == requirements[i].url.scheme
        IN  /\ Used(i, "is_dir") => scheme = "file"
            /\ Readers(i) # <<>> => scheme = "file" /\ world[i].is_dir
            /\ scheme \in {"http", "https"} => AfterScheme(i) = <<"Direct", "build">>
            /\ scheme \in {"git+ssh", "git+https"} => AfterScheme(i) = <<"Git", "build">>
            /\ (scheme = "file" /\ ~world[i].is_dir) =>
                    AfterScheme(i) = <<"is_dir", "Path", "build">>

\* A file locator that is no directory was built from a Path source and
\* took the name of the build.
C14_Witness ==
    /\ ret.kind = "Ok"
    /\ Classified(1)
    /\ requirements[1].url.scheme = "file"
    /\ ~world[1].is_dir
    /\ AfterScheme(1) = <<"is_dir", "Path", "build">>
    /\ ret.vec[1].name = "built"

(***************************************************************************)
(* Failure of the batch (specification Spec)                               *)
(***************************************************************************)
\* Some future has completed with an error and resolve has not returned.
ErrorCompleted == ret.kind = "Pending" /\ \E i \in 1..N : output[i].kind = "Err"

\* The output the queue hands out next is an error.
ErrorIsNext ==
    /\ ret.kind = "Pending"
    /\ next_outgoing <= N
    /\ output[next_outgoing].kind = "Err"

\* No resolution ran: no future was polled and no output was handed out.
\* (The queue may still be filled with a future for the next requirement;
\* a future that is never polled runs no code.)
NoResolutionStep ==
    /\ trace' = trace
    /\ output' = output
    /\ collected' = collected

\* C13 as stated: once a resolution has completed with an error, the
\* orchestrator does nothing but return that error; it polls no future and
\* hands out no output of an earlier index.
C13_Original ==
    [][ErrorCompleted =>
        /\ NoResolutionStep
        /\ ret' # ret => \E i \in 1..N : /\ output[i].kind = "Err"
                                         /\ ret' = [kind |-> "Err", vec |-> <<>>,
                                                    err |-> output[i].err]]_vars

\* C13 amended: resolve returns an error only when it is the output of the
\* next index to hand out, every earlier index having been handed out with
\* a name; from the moment that output is there the orchestrator does
\* nothing but return it, and while an error of a later index waits the
\* futures of the earlier indices are still driven.
C13_FailsInOrder ==
    [][/\ ErrorIsNext =>
            /\ NoResolutionStep
            /\ ret' # ret => ret' = [kind |-> "Err", vec |-> <<>>,
                                     err |-> output[next_outgoing].err]
       /\ (ret.kind = "Pending" /\ ret'.kind = "Err") =>
            /\ ErrorIsNext
            /\ \A j \in 1..(next_outgoing - 1) :
                    status[j] = "yielded" /\ output[j].kind = "Ok"]_vars

\* The batch returned the error of a resolution that had completed before
\* one of a lower index did.
C13_Witness ==
    /\ ret.kind = "Err"
    /\ \E a, b \in 1..Len(completion) :
        /\ a < b
        /\ completion[a] > completion[b]
        /\ output[completion[a]].kind = "Err"
        /\ ret.err = output[completion[a]].err

\* Requirement i's resolution stands where its last poll left it: never
\* polled, or suspended at the await of the build without an outcome.
Suspended(i) ==
    /\ output[i] = NoOutput
    /\ \/ trace[i] = <<>>
       \/ /\ Builds(i) = 1
          /\ trace[i][Len(trace[i])] = "build"

\* C15: once resolve has returned an error, no resolution is in flight any
\* more: every future that had been started and not handed out is dropped,
\* one that had no output stays suspended where it was, and from then on
\* nothing is read, built, completed or started.
C15_NoStepAfterError ==
    /\ [](ret.kind = "Err" =>
            \A i \in 1..N :
                /\ status[i] \in {"unstarted", "yielded", "dropped"}
                /\ (status[i] = "dropped" /\ output[i].kind = "None") => Suspended(i))
    /\ [][ret.kind = "Err" =>
            /\ trace' = trace
            /\ output' = output
            /\ status' = status
            /\ next' = next]_vars

\* An error was returned while a later resolution was awaiting its build:
\* that resolution is dropped with the build as the last thing it used.
C15_Witness ==
    /\ ret.kind = "Err"
    /\ \E i \in 1..N :
        /\ status[i] = "dropped"
        /\ trace[i] # <<>>
        /\ Suspended(i)

\* The requirements of the batch whose resolution fails.
Failing == {i \in 1..N : Resolved(requirements[i], world[i]).kind = "Err"}

\* C16: an error returned by resolve is the error of the failing
\* requirement of the lowest input index, in whatever order the failing
\* resolutions completed.
C16_LowestIndexError ==
    ret.kind = "Err" =>
        /\ Failing # {}
        /\ LET lowest == CHOOSE i \in Failing : \A j \in Failing : i <= j
           IN  ret.err = Resolved(requirements[lowest], world[lowest]).err

\* Two resolutions failed with different errors, the one of the higher
\* index first, and resolve returned the error of the lower index.
C16_Witness ==
    /\ ret.kind = "Err"
    /\ \E a, b \in 1..Len(completion) :
        /\ a < b
        /\ completion[a] > completion[b]
        /\ output[completion[a]].kind = "Err"
        /\ output[completion[b]].kind = "Err"
        /\ output[completion[a]].err # output[completion[b]].err
        /\ ret.err = output[completion[b]].err

\* Requirement i's future has been polled.
Polled(i) == output[i] # NoOutput \/ trace[i] # <<>>

\* C17: futures are created and first polled in input order, and the
\* number of requirements taken from the stream whose output has not been
\* handed out (running or waiting in the queue) never exceeds the ceiling.
C17_StartedInOrderWithinWindow ==
    /\ \A i \in 1..N : /\ status[i] = "unstarted" <=> next <= i
                       /\ Polled(i) => \A j \in 1..(i - 1) : Polled(j)
    /\ Cardinality(InQueue) <= BufferedMax

\* A slow resolution of a low index holds back the start of a later one:
\* requirements are waiting to start and fewer futures than the ceiling are
\* running, but the outputs completed behind the slow one fill the window.
C17_Witness ==
    /\ ret.kind = "Pending"
    /\ next <= N
    /\ status[next_outgoing] = "building"
    /\ Cardinality(InFlight) < BufferedMax
    /\ Cardinality(InQueue) = BufferedMax
    /\ ~CanPush

(***************************************************************************)
(* Termination (specification SpecFair)                                    *)
(***************************************************************************)
\* C18: under fair scheduling, with every build that was started finishing,
\* resolve eventually returns, whatever the length of the list; for the
\* empty list it returns the empty list.
C18_EventuallyReturns ==
    /\ <>(ret.kind # "Pending")
    /\ N = 0 => <>(ret = [kind |-> "Ok", vec |-> <<>>, err |-> NoError])

\* resolve returned the names of a list longer than the ceiling, one of
\* them found by a build.
C18_Witness ==
    /\ ret.kind = "Ok"
    /\ N > BufferedMax
    /\ Len(ret.vec) = N
    /\ \E i \in 1..N : Builds(i) = 1

(***************************************************************************)
(* Decoding of pyproject.toml (specification SpecOne)                      *)
(***************************************************************************)
\* The document has a field that is present and does not deserialize.
HasBadField(file) ==
    \/ file.project.present /\ file.project.name.kind # "absent"
            /\ ~WellTyped(file.project.name)
    \/ file.tool.present /\ file.tool.poetry.present
            /\ file.tool.poetry.name.kind # "absent"
            /\ ~WellTyped(file.tool.poetry.name)

\* C19: pyproject.toml is decoded as a whole before any name is taken from
\* it.  A file that cannot be read or parsed, or one with a field that is
\* ill-typed or not of the package-name grammar (be it the name of
\* tool.poetry next to a valid project name), yields no name and setup.cfg
\* is read next; when the file decodes with a project table, the name of
\* that table is the result whether or not tool.poetry has a name.
C19_WholeFileDecode ==
    \A i \in 1..N :
        (Used(i, "pyproject.toml") /\ Acted(i)) =>
            LET file == world[i].pyproject
            IN  /\ (file.kind # "toml" \/ HasBadField(file)) =>
                    /\ Readers(i) = <<"PKG-INFO", "pyproject.toml", "setup.cfg">>
                    /\ output[i].kind = "Ok" => NamedBy(i) \in {"setup.cfg", "build"}
                /\ (/\ file.kind = "toml"
                    /\ ~HasBadField(file)
                    /\ file.project.present
                    /\ file.project.name.kind # "absent") =>
                    /\ Readers(i) = <<"PKG-INFO", "pyproject.toml">>
                    /\ output[i].kind = "Ok"
                    /\ NamedBy(i) = "pyproject.toml"
                    /\ output[i].req.name = file.project.name.val

\* A valid project name next to a tool.poetry name that is not of the
\* grammar: the file gave no name and setup.cfg named the requirement.
C19_Witness ==
    /\ N = 1
    /\ ret.kind = "Ok"
    /\ world[1].pyproject.kind = "toml"
    /\ world[1].pyproject.project = [present |-> TRUE, name |-> Str("bar")]
    /\ world[1].pyproject.tool.present
    /\ world[1].pyproject.tool.poetry = [present |-> TRUE, name |-> Str("-bad-")]
    /\ Readers(1) = <<"PKG-INFO", "pyproject.toml", "setup.cfg">>
    /\ ret.vec[1].name = "qux"

====
